---- MODULE Spec2Model ----
(***************************************************************************)
(* Report2Earn, src/ai-verify/ai_verification_system.py:                   *)
(* AgenticVerificationSystem.verify_content as a state machine.            *)
(*                                                                         *)
(* One verify_content call walks the compiled LangGraph workflow           *)
(*   image_processing -> web_search -> multi_model_verification            *)
(*     -> popularity_analysis -> group_decision -> END.                    *)
(* multi_model_verification creates one asyncio task per configured model  *)
(* (_verify_with_model_safe), awaits them in creation order, turns the     *)
(* collected dicts into AgentDecisions and stores them in the four         *)
(* *_decision fields of VerificationState; group_decision aggregates those *)
(* fields into the GroupDecision that verify_content returns.              *)
(*                                                                         *)
(* Numbers: every confidence is an integer number of thousandths           *)
(* (0.6 is 600, 1.0 is 1000); an average or a ratio is kept exact as a     *)
(* record [num, den].  Python computes them in binary floating point; the  *)
(* model is exact arithmetic and says nothing about rounding error.        *)
(* Texts are sequences of words; a substring test of the code is a test    *)
(* on the words (see Subs).                                                *)
(***************************************************************************)
EXTENDS Integers, Sequences, FiniteSets, TLC

----------------------------------------------------------------------------
(* Program constants *)

\* self.models: the five configured OpenRouter clients, in dict order.
model_names == <<"nvidia_nemotron", "z_ai_glm", "mistral_small",
                 "dolphin_mistral_24b", "kimi_dev_72b">>

NumModels == Len(model_names)

Models == 1..NumModels

\* asyncio.wait_for(..., timeout=45)
Timeout == 45

\* min_models = 2
min_models == 2

\* min_confidence_threshold = 0.6, in thousandths
min_confidence_threshold == 600

\* The number of *_decision fields VerificationState has for the opinions.
NumDecisionFields == 4

----------------------------------------------------------------------------
(* Values *)

\* A JSON scalar as json.loads returns it: a number (in thousandths) or a string.
Num(n) == [t |-> "num", v |-> n]

NonNumeric == [t |-> "str", v |-> 0]

\* The JSON literal true: json.loads returns True, which isinstance takes
\* for an int and which compares and adds as 1.
JsonTrue == [t |-> "bool", v |-> 1000]

None == [none |-> TRUE]

\* str.lower() on the words the model uses.
Lower(w) ==
    CASE w = "Timeout" -> "timeout"
      [] w = "FAILED" -> "failed"
      [] w = "Fake" -> "fake"
      [] w = "Authentic" -> "authentic"
      [] OTHER -> w

\* The keywords that occur inside a (lower-cased) word as a substring.
Subs(w) ==
    CASE w = "failed:" -> {"failed:", "failed"}
      [] w = "unrealistic" -> {"unrealistic", "real"}
      [] OTHER -> {w}

\* `kw in text.lower()` for a text given as a sequence of words.
InLower(kw, text) == \E i \in 1..Len(text) : kw \in Subs(Lower(text[i]))

RECURSIVE SumSeq(_)
SumSeq(s) == IF s = <<>> THEN 0 ELSE Head(s) + SumSeq(Tail(s))

RECURSIVE SelectIdx(_, _, _)
\* The indices i of s, in order, with keep[i].
SelectIdx(s, keep, i) ==
    IF i > Len(s) THEN <<>>
    ELSE (IF keep[i] THEN <<i>> ELSE <<>>) \o SelectIdx(s, keep, i + 1)

Max(a, b) == IF a >= b THEN a ELSE b

----------------------------------------------------------------------------
(* What a judge client returns *)

\* response.content is a sequence of tokens: a word, or a brace-delimited span
\* that json.loads decodes to the object o.
W(s) == [k |-> "w", s |-> s, o |-> None]

O(obj) == [k |-> "o", s |-> "", o |-> obj]

\* client.ainvoke either raises (kind "raise", msg the exception text) or
\* returns a response with the given content (kind "response").
Raise(msg) == [kind |-> "raise", content |-> <<>>, msg |-> msg]

Response(content) == [kind |-> "response", content |-> content, msg |-> <<>>]

\* The JSON object the prompt asks for.
Obj(d, c, r, e) == [decision |-> d, confidence |-> c, reasoning |-> r, evidence |-> e]

\* The words of a token as they appear in the raw text.
TokenWords(tok) ==
    IF tok.k = "w" THEN <<tok.s>>
    ELSE (IF "decision" \in DOMAIN tok.o THEN <<tok.o.decision>> ELSE <<>>)
         \o (IF "reasoning" \in DOMAIN tok.o THEN tok.o.reasoning ELSE <<>>)

RECURSIVE ContentWords(_)
ContentWords(content) ==
    IF content = <<>> THEN <<>>
    ELSE TokenWords(Head(content)) \o ContentWords(Tail(content))

----------------------------------------------------------------------------
(* _create_fallback_decision, _parse_text_response, _verify_with_model *)

_create_fallback_decision(model_name, error_msg) ==
    [decision |-> "uncertain",
     confidence |-> Num(0),
     reasoning |-> <<"Model", model_name, "failed:">> \o error_msg,
     evidence |-> <<>>]

_parse_text_response(text, model_name) ==
    LET words == ContentWords(text)
        dc == IF InLower("authentic", words) \/ InLower("real", words)
                 \/ InLower("genuine", words)
              THEN <<"authentic", 600>>
              ELSE IF InLower("fake", words) \/ InLower("false", words)
                      \/ InLower("misleading", words)
              THEN <<"fake", 600>>
              ELSE <<"uncertain", 300>>
    IN  [decision |-> dc[1],
         confidence |-> Num(dc[2]),
         reasoning |-> <<"Parsed", "from", "text", "response:">> \o words,
         evidence |-> <<>>]

\* The code-fence markers of a markdown block: three backquotes followed by
\* json, and three backquotes.
FenceJson == W("<fence>json")

Fence == W("<fence>")

\* Lines 609-616: strip a leading json fence, a leading fence and a trailing
\* fence.
StripFences(content) ==
    LET c1 == IF content # <<>> /\ Head(content) = FenceJson
              THEN Tail(content) ELSE content
        c2 == IF c1 # <<>> /\ Head(c1) = Fence THEN Tail(c1) ELSE c1
        c3 == IF c2 # <<>> /\ c2[Len(c2)] = Fence
              THEN SubSeq(c2, 1, Len(c2) - 1) ELSE c2
    IN  c3

\* json.loads(content) succeeds exactly when the text is one object.
JsonDecodes(content) == Len(content) = 1 /\ content[1].k = "o"

\* re.search with the greedy brace pattern and re.DOTALL: the span from the
\* first opening brace to the last closing brace; <<>> when nothing matches.
BraceSpan(content) ==
    LET idx == {i \in 1..Len(content) : content[i].k = "o"}
    IN  IF idx = {} THEN <<>>
        ELSE SubSeq(content,
                    CHOOSE i \in idx : \A j \in idx : i <= j,
                    CHOOSE i \in idx : \A j \in idx : i >= j)

\* The validation with a confidence of 0 taken to be missing.
ValidateDecisionZeroInvalid(model_name, decision_data) ==
    IF ~ ({"decision", "confidence", "reasoning", "evidence"} \subseteq DOMAIN decision_data)
    THEN _create_fallback_decision(model_name, <<"Invalid", "response", "format">>)
    ELSE [decision |-> IF decision_data.decision \in {"authentic", "fake", "uncertain"}
                       THEN decision_data.decision ELSE "uncertain",
          confidence |-> IF decision_data.confidence.t = "num"
                            /\ 0 < decision_data.confidence.v
                            /\ decision_data.confidence.v <= 1000
                         THEN decision_data.confidence ELSE Num(500),
          reasoning |-> decision_data.reasoning,
          evidence |-> decision_data.evidence]

\* Lines 621-638: the validation of a decoded object.
ValidateDecision(model_name, decision_data) ==
    IF ~ ({"decision", "confidence", "reasoning", "evidence"} \subseteq DOMAIN decision_data)
    THEN _create_fallback_decision(model_name, <<"Invalid", "response", "format">>)
    ELSE LET d == IF decision_data.decision \in {"authentic", "fake", "uncertain"}
                  THEN decision_data.decision ELSE "uncertain"
             c == IF decision_data.confidence.t \in {"num", "bool"}
                     /\ 0 <= decision_data.confidence.v
                     /\ decision_data.confidence.v <= 1000
                  THEN decision_data.confidence ELSE Num(500)
         IN  [decision |-> d, confidence |-> c,
              reasoning |-> decision_data.reasoning,
              evidence |-> decision_data.evidence]

\* Lines 644-656: the JSONDecodeError handler.  The object found by the
\* regular expression is returned as decoded.
ExtractFragment(response_content, content, model_name) ==
    LET span == BraceSpan(content)
    IN  IF span # <<>> /\ JsonDecodes(span)
        THEN span[1].o
        ELSE _parse_text_response(response_content, model_name)

_verify_with_model(model_name, reply) ==
    IF reply.kind = "raise"
    THEN _create_fallback_decision(model_name, reply.msg)
    ELSE IF reply.content = <<>>
    THEN _create_fallback_decision(model_name, <<"Empty", "response", "from", "model">>)
    ELSE LET content == StripFences(reply.content)
         IN  IF JsonDecodes(content)
             THEN ValidateDecision(model_name, content[1].o)
             ELSE ExtractFragment(reply.content, content, model_name)

\* asyncio.wait_for around _verify_with_model: the reply when the call
\* completes before the deadline, the Timeout fallback when the timer fires.
_verify_with_model_safe(model_name, reply, timed_out) ==
    IF timed_out
    THEN _create_fallback_decision(model_name, <<"Timeout">>)
    ELSE _verify_with_model(model_name, reply)

----------------------------------------------------------------------------
(* AgentDecision and the aggregation of _group_decision_maker *)

\* Lines 436-442: AgentDecision(...) raises KeyError when a field is missing
\* and VerificationResult(...) raises ValueError for an unknown decision.
AgentDecisionRaises(decision_data) ==
    \/ ~ ({"decision", "confidence", "reasoning", "evidence"} \subseteq DOMAIN decision_data)
    \/ decision_data.decision \notin {"authentic", "fake", "uncertain"}

\* f"Model: {model_name.replace('_', ' ').title()}" is one-to-one on the
\* configured names; the model keeps the name itself.
AgentName(model_name) == <<"Model:", model_name>>

AgentDecision(model_name, decision_data) ==
    [agent_name |-> AgentName(model_name),
     decision |-> decision_data.decision,
     confidence |-> decision_data.confidence,
     reasoning |-> decision_data.reasoning,
     evidence |-> decision_data.evidence]

\* Lines 724 and 850: `d.confidence > 0.0` raises TypeError for a string.
ComparisonRaises(valid_decisions) ==
    \E i \in 1..Len(valid_decisions) : valid_decisions[i].confidence.t \notin {"num", "bool"}

\* Lines 724 and 850: the filter of the successful decisions.
IsSuccessful(d) ==
    /\ d.confidence.v > 0
    /\ ~ InLower("failed", d.reasoning)
    /\ ~ InLower("timeout", d.reasoning)

\* The sub-list of the decisions d of ds with P: as indices into ds.
SuccessfulIdx(ds) == SelectIdx(ds, [i \in 1..Len(ds) |-> IsSuccessful(ds[i])], 1)

FailedIdx(ds) == SelectIdx(ds, [i \in 1..Len(ds) |-> ~ IsSuccessful(ds[i])], 1)

\* sum(1 for d in successful_decisions if d.decision == cls)
CountOf(ds, cls) == Cardinality({i \in 1..Len(ds) : IsSuccessful(ds[i]) /\ ds[i].decision = cls})

\* sum(d.confidence for d in successful_decisions if d.decision == cls)
WeightOf(ds, cls) ==
    SumSeq([i \in 1..Len(ds) |->
              IF IsSuccessful(ds[i]) /\ ds[i].decision = cls
              THEN ds[i].confidence.v ELSE 0])

\* A supporter of any confidence passes for a high-confidence one.
HighConfAnySupporter(ds, cls) ==
    \E i \in 1..Len(ds) : IsSuccessful(ds[i]) /\ ds[i].decision = cls

\* high_conf_fake / high_conf_authentic is non-empty
HighConf(ds, cls) ==
    \E i \in 1..Len(ds) : /\ IsSuccessful(ds[i])
                          /\ ds[i].decision = cls
                          /\ ds[i].confidence.v >= min_confidence_threshold

\* The chain with the leader by weight accepted without a decision of
\* confidence >= min_confidence_threshold.
FinalDecisionWeakLeaderWins(ds) ==
    LET ac == CountOf(ds, "authentic")
        fc == CountOf(ds, "fake")
        uc == CountOf(ds, "uncertain")
        aw == WeightOf(ds, "authentic")
        fw == WeightOf(ds, "fake")
        uw == WeightOf(ds, "uncertain")
    IN  IF fw > aw /\ fw > uw THEN "fake"
        ELSE IF aw > fw /\ aw > uw THEN "authentic"
        ELSE IF fc > ac /\ fc > uc
        THEN (IF HighConf(ds, "fake") THEN "fake" ELSE "uncertain")
        ELSE IF ac > fc /\ ac > uc
        THEN (IF HighConf(ds, "authentic") THEN "authentic" ELSE "uncertain")
        ELSE "uncertain"

\* The chain with the vote counts consulted before the weights.
FinalDecisionCountFirst(ds) ==
    LET ac == CountOf(ds, "authentic")
        fc == CountOf(ds, "fake")
        uc == CountOf(ds, "uncertain")
        aw == WeightOf(ds, "authentic")
        fw == WeightOf(ds, "fake")
        uw == WeightOf(ds, "uncertain")
    IN  IF fc > ac /\ fc > uc
        THEN (IF HighConf(ds, "fake") THEN "fake" ELSE "uncertain")
        ELSE IF ac > fc /\ ac > uc
        THEN (IF HighConf(ds, "authentic") THEN "authentic" ELSE "uncertain")
        ELSE IF fw > aw /\ fw > uw
        THEN (IF HighConf(ds, "fake") THEN "fake" ELSE "uncertain")
        ELSE IF aw > fw /\ aw > uw
        THEN (IF HighConf(ds, "authentic") THEN "authentic" ELSE "uncertain")
        ELSE "uncertain"

\* The chain with a tie broken in favour of fake.
FinalDecisionTieIsFake(ds) ==
    LET ac == CountOf(ds, "authentic")
        fc == CountOf(ds, "fake")
        uc == CountOf(ds, "uncertain")
        aw == WeightOf(ds, "authentic")
        fw == WeightOf(ds, "fake")
        uw == WeightOf(ds, "uncertain")
    IN  IF fw > aw /\ fw > uw
        THEN (IF HighConf(ds, "fake") THEN "fake" ELSE "uncertain")
        ELSE IF aw > fw /\ aw > uw
        THEN (IF HighConf(ds, "authentic") THEN "authentic" ELSE "uncertain")
        ELSE IF fc > ac /\ fc > uc
        THEN (IF HighConf(ds, "fake") THEN "fake" ELSE "uncertain")
        ELSE IF ac > fc /\ ac > uc
        THEN (IF HighConf(ds, "authentic") THEN "authentic" ELSE "uncertain")
        ELSE "fake"

\* The chain with uncertain as the decision when it leads by weight.
FinalDecisionUncertainLeads(ds) ==
    LET ac == CountOf(ds, "authentic")
        fc == CountOf(ds, "fake")
        uc == CountOf(ds, "uncertain")
        aw == WeightOf(ds, "authentic")
        fw == WeightOf(ds, "fake")
        uw == WeightOf(ds, "uncertain")
    IN  IF fw > aw /\ fw > uw
        THEN (IF HighConf(ds, "fake") THEN "fake" ELSE "uncertain")
        ELSE IF aw > fw /\ aw > uw
        THEN (IF HighConf(ds, "authentic") THEN "authentic" ELSE "uncertain")
        ELSE IF uw > aw /\ uw > fw THEN "uncertain"
        ELSE IF fc > ac /\ fc > uc
        THEN (IF HighConf(ds, "fake") THEN "fake" ELSE "uncertain")
        ELSE IF ac > fc /\ ac > uc
        THEN (IF HighConf(ds, "authentic") THEN "authentic" ELSE "uncertain")
        ELSE "uncertain"

\* Lines 767-805: the if/elif chain that picks final_decision.
FinalDecision(ds) ==
    LET ac == CountOf(ds, "authentic")
        fc == CountOf(ds, "fake")
        uc == CountOf(ds, "uncertain")
        aw == WeightOf(ds, "authentic")
        fw == WeightOf(ds, "fake")
        uw == WeightOf(ds, "uncertain")
    IN  IF fw > aw /\ fw > uw
        THEN (IF HighConf(ds, "fake") THEN "fake" ELSE "uncertain")
        ELSE IF aw > fw /\ aw > uw
        THEN (IF HighConf(ds, "authentic") THEN "authentic" ELSE "uncertain")
        ELSE IF fc > ac /\ fc > uc
        THEN (IF HighConf(ds, "fake") THEN "fake" ELSE "uncertain")
        ELSE IF ac > fc /\ ac > uc
        THEN (IF HighConf(ds, "authentic") THEN "authentic" ELSE "uncertain")
        ELSE "uncertain"

\* The mean over all the successful decisions, aligned or not.
AvgOverSuccessful(ds, final_decision) ==
    [num |-> WeightOf(ds, "authentic") + WeightOf(ds, "fake") + WeightOf(ds, "uncertain"),
     den |-> Len(SuccessfulIdx(ds))]

\* Lines 807-815: avg_confidence as the exact ratio num/den (thousandths).
AvgConfidence(ds, final_decision) ==
    LET aligned == {i \in 1..Len(ds) : IsSuccessful(ds[i]) /\ ds[i].decision = final_decision}
        succ == {i \in 1..Len(ds) : IsSuccessful(ds[i])}
        over == IF aligned # {} THEN aligned ELSE succ
    IN  [num |-> SumSeq([i \in 1..Len(ds) |-> IF i \in over THEN ds[i].confidence.v ELSE 0]),
         den |-> Cardinality(over)]

\* The larger count over all the decisions, the failed ones included.
ConsensusAmongAll(ds) ==
    [num |-> Max(CountOf(ds, "authentic"), CountOf(ds, "fake")), den |-> Len(ds)]

\* The share of the fake votes.
ConsensusOfFake(ds) ==
    [num |-> CountOf(ds, "fake"), den |-> Len(SuccessfulIdx(ds))]

\* Lines 760-761: consensus_score as the exact ratio num/den.
ConsensusScore(ds) ==
    [num |-> Max(CountOf(ds, "authentic"), CountOf(ds, "fake")),
     den |-> Len(SuccessfulIdx(ds))]

\* The base fee whatever the popularity.
RewardWithoutMultiplier(popularity_score) == 500

\* _calculate_dynamic_reward: popularity_score in hundredths, the reward in
\* units of 0.0001 ALGO: min(0.05 * (1 + 4 * popularity), 1.0).
_calculate_dynamic_reward(popularity_score) ==
    LET dynamic_reward == 5 * (100 + 4 * popularity_score)
    IN  IF dynamic_reward < 10000 THEN dynamic_reward ELSE 10000

\* format(x, ".2f") of a number of thousandths: the nearest number of
\* hundredths.  (A number halfway between two is rounded by its binary
\* value; the inputs of the model have no such number.)
Fmt2(v) == (v + 5) \div 10

\* _generate_group_reasoning: the parts of the text, in order.  The weights
\* and the confidences are in the text as format(x, ".2f") writes them.
_generate_group_reasoning(decisions, final_decision) ==
    LET succ == SuccessfulIdx(decisions)
        failed == FailedIdx(decisions)
    IN  [header |-> <<"Group", "Decision:", final_decision>>,
         consensus |-> IF succ # <<>>
                       THEN <<CountOf(decisions, "fake"), CountOf(decisions, "authentic"),
                              CountOf(decisions, "uncertain")>>
                       ELSE <<>>,
         successful_models |-> IF succ # <<>> THEN <<Len(succ), Len(decisions)>> ELSE <<>>,
         weighted |-> IF succ # <<>>
                      THEN <<Fmt2(WeightOf(decisions, "fake")),
                             Fmt2(WeightOf(decisions, "authentic"))>>
                      ELSE <<>>,
         failed_models |-> [k \in 1..Len(failed) |->
                              <<decisions[failed[k]].agent_name, decisions[failed[k]].reasoning>>],
         analysis |-> [k \in 1..Len(succ) |->
                         [agrees |-> decisions[succ[k]].decision = final_decision,
                          agent_name |-> decisions[succ[k]].agent_name,
                          decision |-> decisions[succ[k]].decision,
                          confidence |-> Fmt2(decisions[succ[k]].confidence.v),
                          reasoning |-> decisions[succ[k]].reasoning,
                          evidence |-> decisions[succ[k]].evidence]]]

Zero == [num |-> 0, den |-> 1]

\* The GroupDecision of lines 711-721: no decision field is set.
NoValidDecisions(web_search_results) ==
    [final_decision |-> "uncertain", confidence |-> Zero, consensus_score |-> Zero,
     individual_decisions |-> <<>>,
     group_reasoning |-> [kind |-> "no_valid_decisions"],
     popularity_score |-> 0, dynamic_reward |-> 0,
     web_search_results |-> web_search_results]

\* The GroupDecision of lines 732-743: fewer than min_models successful.
InsufficientModels(valid_decisions, web_search_results) ==
    [final_decision |-> "uncertain", confidence |-> Zero, consensus_score |-> Zero,
     individual_decisions |-> valid_decisions,
     group_reasoning |-> [kind |-> "insufficient",
                          successful |-> Len(SuccessfulIdx(valid_decisions)),
                          total |-> Len(valid_decisions),
                          need |-> min_models],
     popularity_score |-> 0, dynamic_reward |-> 0,
     web_search_results |-> web_search_results]

\* The GroupDecision of lines 745-838.
Consensus(valid_decisions, popularity_score, web_search_results) ==
    LET final_decision == FinalDecision(valid_decisions)
    IN  [final_decision |-> final_decision,
         confidence |-> AvgConfidence(valid_decisions, final_decision),
         consensus_score |-> ConsensusScore(valid_decisions),
         individual_decisions |-> valid_decisions,
         group_reasoning |-> [kind |-> "generated",
                              text |-> _generate_group_reasoning(valid_decisions, final_decision)],
         popularity_score |-> popularity_score,
         dynamic_reward |-> IF final_decision = "fake"
                            THEN _calculate_dynamic_reward(popularity_score) ELSE 0,
         web_search_results |-> web_search_results]

\* Why the decision is uncertain, as lines 733 and 775-805 print it:
\* "quorum" (fewer than min_models successful), "low_confidence" (the class
\* that leads has no decision with confidence >= min_confidence_threshold),
\* "no_clear_majority" (the else branch); "none" when it is not uncertain.
UncertainCause(ds) ==
    IF Len(SuccessfulIdx(ds)) < min_models THEN "quorum"
    ELSE IF FinalDecision(ds) # "uncertain" THEN "none"
    ELSE LET ac == CountOf(ds, "authentic")
             fc == CountOf(ds, "fake")
             uc == CountOf(ds, "uncertain")
             aw == WeightOf(ds, "authentic")
             fw == WeightOf(ds, "fake")
             uw == WeightOf(ds, "uncertain")
         IN  IF \/ fw > aw /\ fw > uw
                \/ aw > fw /\ aw > uw
                \/ fc > ac /\ fc > uc
                \/ ac > fc /\ ac > uc
             THEN "low_confidence"
             ELSE "no_clear_majority"

\* The quorum test with one successful decision taken to be enough.
QuorumMissedOffByOne(valid_decisions) == Len(SuccessfulIdx(valid_decisions)) < 1

\* The quorum test of line 732.
QuorumMissed(valid_decisions) == Len(SuccessfulIdx(valid_decisions)) < min_models

\* _group_decision_maker on the decision fields that are set.
GroupDecisionOf(valid_decisions, popularity_score, web_search_results) ==
    IF valid_decisions = <<>>
    THEN NoValidDecisions(web_search_results)
    ELSE IF QuorumMissed(valid_decisions)
    THEN InsufficientModels(valid_decisions, web_search_results)
    ELSE Consensus(valid_decisions, popularity_score, web_search_results)

----------------------------------------------------------------------------
(* Popularity *)

viral_keywords == {"breaking", "exclusive", "shocking", "amazing", "incredible",
                   "unbelievable", "must see", "viral", "trending", "hot",
                   "urgent", "alert", "warning", "scandal", "leaked"}

emotional_keywords == {"love", "hate", "angry", "excited", "scared", "surprised",
                       "disgusted", "happy", "sad", "furious", "thrilled"}

Min(a, b) == IF a <= b THEN a ELSE b

\* _calculate_popularity_score, in hundredths.  A content text is the record
\* [words, length]: its words and len(content_text).
_calculate_popularity_score(content_text) ==
    LET viral_count == Cardinality({k \in viral_keywords : InLower(k, content_text.words)})
        emotional_count == Cardinality({k \in emotional_keywords : InLower(k, content_text.words)})
        text_length == content_text.length
        length_score == IF 100 <= text_length /\ text_length <= 500 THEN 80
                        ELSE IF 50 <= text_length /\ text_length <= 1000 THEN 60
                        ELSE IF text_length > 1000 THEN 40
                        ELSE 50
        popularity_score == 30 + Min(viral_count * 10, 30) + Min(emotional_count * 5, 20)
                            + (length_score * 20) \div 100
    IN  Max(0, Min(100, popularity_score))

----------------------------------------------------------------------------
(* Bounds and inputs *)

\* The clock advances in steps of TickLen time units.
TickLen == 15

\* How many replies of abandoned calls are followed after their deadline.
MaxLateReplies == 1

OkReasoning == <<"claims", "match", "sources">>

Fake80 == Response(<<O(Obj("fake", Num(800), OkReasoning, <<"e1">>))>>)

Authentic90 == Response(<<O(Obj("authentic", Num(900), OkReasoning, <<>>))>>)

Fake60 == Response(<<O(Obj("fake", Num(600), OkReasoning, <<>>))>>)

Fake30 == Response(<<O(Obj("fake", Num(300), OkReasoning, <<>>))>>)

Uncertain10 == Response(<<O(Obj("uncertain", Num(100), OkReasoning, <<>>))>>)

\* A well-formed reply whose reasoning uses the word "failed".
FakeSaysFailed ==
    Response(<<O(Obj("fake", Num(900), <<"the", "claim", "failed", "checks">>, <<>>))>>)

Empty == Response(<<>>)

ConnectError == Raise(<<"Connection", "error">>)

\* Free text without any JSON.
TextFake == Response(<<W("this"), W("looks"), W("Fake")>>)

\* A JSON object after some prose: json.loads fails on the whole text.
EmbeddedFake150 ==
    Response(<<W("Sure"), O(Obj("fake", Num(1500), OkReasoning, <<>>))>>)

EmbeddedMaybe ==
    Response(<<W("Sure"), O(Obj("maybe", Num(500), OkReasoning, <<>>))>>)

EmbeddedNoEvidence ==
    Response(<<W("Sure"), O([decision |-> "fake", confidence |-> Num(700),
                              reasoning |-> OkReasoning])>>)

EmbeddedHigh ==
    Response(<<W("Sure"), O(Obj("authentic", NonNumeric, OkReasoning, <<>>))>>)

MenuWellFormed == {Fake80, Authentic90, Fake30}

\* Weights can tie here (0.6 + 0.3 = 0.9) while the counts do not.
MenuTie == {Fake60, Fake30, Authentic90}

MenuFailures == {Fake80, Empty, ConnectError}

MenuText == {Uncertain10, TextFake, FakeSaysFailed}

MenuOutOfRange == {Authentic90, EmbeddedFake150, EmbeddedMaybe}

MenuMissing == {Fake80, EmbeddedNoEvidence, EmbeddedHigh}

Menus == {MenuWellFormed, MenuTie, MenuFailures, MenuText, MenuOutOfRange, MenuMissing}

\* A world: what the collaborators of one call deliver.  replies: the replies
\* its judge clients may give; search_hits, image_hits: what the web search
\* finds for the text and for each image when it does not raise.
World(replies, search_hits, image_hits) ==
    [replies |-> replies, search_hits |-> search_hits, image_hits |-> image_hits]

Worlds == {World(m, <<>>, <<>>) : m \in Menus}

PlainText == [words |-> <<"breaking", "news">>, length |-> 120]

----------------------------------------------------------------------------
(* State *)

VARIABLES
    pc,        \* the workflow node that runs next; "END", or "raised"
    state,     \* the VerificationState of the call
    tasks,     \* the asyncio task of each model
    results,   \* the list `results` of _multi_model_verification
    clock,     \* time units since the tasks were created
    late,      \* the models whose abandoned call replied after the deadline
    exc,       \* the exception verify_content raised, if any
    world,     \* what the collaborators of this call deliver (never changes)
    calls      \* the verify_content calls that run at once on one system

vars == <<pc, state, tasks, results, clock, late, exc, world, calls>>

\* No reply (yet) from the judge client.
NoReply == [kind |-> "none", content |-> <<>>, msg |-> <<>>]

\* A task: status "none" (not created), "running" or "done"; reply: what the
\* judge client gave it; result: what _verify_with_model_safe returned;
\* timed_out: its wait_for timer fired first.
NoTask == [status |-> "none", reply |-> NoReply, result |-> None, timed_out |-> FALSE]

VerificationState(content_text, content_images) ==
    [content_text |-> content_text,
     content_images |-> content_images,
     image_analyses |-> <<>>,
     extracted_texts |-> <<>>,
     manipulation_indicators |-> <<>>,
     web_search_results |-> <<>>,
     fact_check_results |-> <<>>,
     fact_checker_decision |-> None,
     image_analyst_decision |-> None,
     source_verifier_decision |-> None,
     context_analyst_decision |-> None,
     popularity_score |-> 0,
     group_decision |-> None,
     verification_complete |-> FALSE]

\* One call only: nothing else runs on the system.
NoCalls == <<>>

InitWith(worlds) ==
    /\ pc = "image_processing"
    /\ state = VerificationState(PlainText, <<>>)
    /\ tasks = [i \in Models |-> NoTask]
    /\ results = <<>>
    /\ clock = 0
    /\ late = {}
    /\ exc = "None"
    /\ world \in worlds
    /\ calls = NoCalls

Init == InitWith(Worlds)

----------------------------------------------------------------------------
(* The workflow nodes before the fan-out *)

\* What the image processor returns for an image.
ImageAnalysis(image_url) == [success |-> TRUE, analysis |-> <<"a", "photo">>]

ImageText == [words |-> <<"caption">>, length |-> 7]

RECURSIVE JoinTexts(_)
\* "\n".join(extracted_texts)
JoinTexts(texts) ==
    IF texts = <<>> THEN [words |-> <<>>, length |-> 0]
    ELSE LET rest == JoinTexts(Tail(texts))
         IN  [words |-> Head(texts).words \o rest.words,
              length |-> Head(texts).length + rest.length
                         + (IF Tail(texts) = <<>> THEN 0 ELSE 1)]

\* _process_images.  outcome: "ok", "raise_analyze" (analyze_images_batch
\* raises), "raise_encode" (a later call raises, after image_analyses is set).
_process_images(st, outcome) ==
    IF st.content_images = <<>> THEN st
    ELSE IF outcome = "raise_analyze" THEN st
    ELSE LET n == Len(st.content_images)
             analysed == [st EXCEPT !.image_analyses =
                                        [i \in 1..n |-> ImageAnalysis(st.content_images[i])]]
             extracted_texts == [i \in 1..n |-> ImageText]
             joined == JoinTexts(extracted_texts)
         IN  IF outcome = "raise_encode" THEN analysed
             ELSE [analysed EXCEPT
                     !.extracted_texts = extracted_texts,
                     !.manipulation_indicators =
                         [i \in 1..n |-> [image_url |-> st.content_images[i],
                                          analysis |-> <<"no", "editing">>]],
                     !.content_text =
                         [words |-> st.content_text.words \o <<"[Text", "from", "images:]">>
                                    \o joined.words,
                          \* len("\n\n[Text from images:]\n") = 23
                          length |-> st.content_text.length + 23 + joined.length]]

RECURSIVE ImageVerification(_, _)
\* The fact_check_results the loop of lines 281-294 adds.
ImageVerification(images, image_hits) ==
    IF images = <<>> THEN <<>>
    ELSE [k \in 1..Len(image_hits) |->
            [type |-> "image_verification", image_url |-> Head(images),
             title |-> image_hits[k]]]
         \o ImageVerification(Tail(images), image_hits)

\* The handler empties the text results only: the image verification
\* results of the images searched before the raise stay.
WebSearchKeepsImageResults(st, outcome, w) ==
    IF outcome = "raise"
    THEN [st EXCEPT !.web_search_results = <<>>,
                    !.fact_check_results =
                        IF st.content_images = <<>> THEN <<>>
                        ELSE ImageVerification(<<Head(st.content_images)>>, w.image_hits)]
    ELSE [st EXCEPT !.web_search_results = w.search_hits,
                    !.fact_check_results =
                        st.fact_check_results \o ImageVerification(st.content_images, w.image_hits)]

\* _perform_web_search.  outcome: "ok", or "raise" (either search raises:
\* the handler empties both lists).
_perform_web_search(st, outcome, w) ==
    IF outcome = "raise"
    THEN [st EXCEPT !.web_search_results = <<>>, !.fact_check_results = <<>>]
    ELSE [st EXCEPT !.web_search_results = w.search_hits,
                    !.fact_check_results =
                        st.fact_check_results \o ImageVerification(st.content_images, w.image_hits)]

ProcessImages ==
    /\ pc = "image_processing"
    /\ \E outcome \in {"ok", "raise_analyze", "raise_encode"} :
           state' = _process_images(state, outcome)
    /\ pc' = "web_search"
    /\ UNCHANGED <<tasks, results, clock, late, exc, world, calls>>

PerformWebSearch ==
    /\ pc = "web_search"
    /\ \E outcome \in {"ok", "raise"} :
           state' = _perform_web_search(state, outcome, world)
    /\ pc' = "multi_model_verification"
    /\ UNCHANGED <<tasks, results, clock, late, exc, world, calls>>

----------------------------------------------------------------------------
(* multi_model_verification: the fan-out and the join *)

\* Lines 399-405: one task per configured model, all created before the
\* first await.
CreateTasks ==
    /\ pc = "multi_model_verification"
    /\ tasks' = [i \in Models |-> [NoTask EXCEPT !.status = "running"]]
    /\ clock' = 0
    /\ pc' = "await_tasks"
    /\ UNCHANGED <<state, results, late, exc, world, calls>>

\* Time passes while calls are in flight.
Tick ==
    /\ pc \in {"await_tasks"}
    /\ clock < Timeout
    /\ clock' = clock + TickLen
    /\ UNCHANGED <<pc, state, tasks, results, late, exc, world, calls>>

\* The task of model i finishes before its deadline: the judge client
\* replied or raised, and _verify_with_model_safe returned.
FinishTask(model_name, reply, timed_out) ==
    [status |-> "done",
     reply |-> reply,
     result |-> _verify_with_model_safe(model_name, reply, timed_out),
     timed_out |-> timed_out]

JudgeReplies(i) ==
    /\ tasks[i].status = "running"
    /\ clock < Timeout
    /\ \E reply \in world.replies :
           tasks' = [tasks EXCEPT ![i] = FinishTask(model_names[i], reply, FALSE)]
    /\ UNCHANGED <<pc, state, results, clock, late, exc, world, calls>>

\* The wait_for timer of model i fires: the call is cancelled and the task
\* finishes with the Timeout fallback.
DeadlineExpires(i) ==
    /\ tasks[i].status = "running"
    /\ clock >= Timeout
    /\ tasks' = [tasks EXCEPT ![i] = FinishTask(model_names[i], NoReply, TRUE)]
    /\ UNCHANGED <<pc, state, results, clock, late, exc, world, calls>>

\* The late reply is parsed and replaces the result of the task.
AfterLateReplyOverwrites(t, model_name, reply) ==
    [t EXCEPT !.reply = reply, !.result = _verify_with_model(model_name, reply)]

\* What a reply of the judge client does to a task whose wait_for has timed
\* out: the coroutine that would have read it was cancelled.
AfterLateReply(t, model_name, reply) == t

\* The abandoned call of model i replies after the deadline.
LateReply(i) ==
    /\ tasks[i].timed_out
    /\ i \notin late
    /\ Cardinality(late) < MaxLateReplies
    /\ late' = late \cup {i}
    /\ \E reply \in world.replies :
           tasks' = [tasks EXCEPT ![i] = AfterLateReply(tasks[i], model_names[i], reply)]
    /\ UNCHANGED <<pc, state, results, clock, exc, world, calls>>

\* The decisions with the names of the models given out from the last to
\* the first.
DecisionsNamedBackwards(rs) ==
    [i \in 1..Len(rs) |-> AgentDecision(model_names[Len(rs) + 1 - i], rs[i])]

\* Lines 420-443: the AgentDecisions of the collected results, in order.
Decisions(rs) == [i \in 1..Len(rs) |-> AgentDecision(model_names[i], rs[i])]

\* The exception lines 436-442 raise on the collected results, "None" if none.
DecisionsExc(rs) ==
    LET bad == {i \in 1..Len(rs) : AgentDecisionRaises(rs[i])}
        first == CHOOSE i \in bad : \A j \in bad : i <= j
    IN  IF bad = {} THEN "None"
        ELSE IF ~ ({"decision", "confidence", "reasoning", "evidence"} \subseteq DOMAIN rs[first])
        THEN "KeyError"
        ELSE "ValueError"

\* Lines 448-457: the placeholder when no decision was created.
FallbackDecision ==
    [agent_name |-> <<"Fallback">>, decision |-> "uncertain", confidence |-> Num(0),
     reasoning |-> <<"All", "models", "failed">>, evidence |-> <<>>]

\* decisions[k] if len(decisions) > k else None  (k counted from 1 here)
DecisionOrNone(decisions, k) == IF Len(decisions) >= k THEN decisions[k] ELSE None

\* Lines 459-463: the decisions are stored in the decision fields of the state.
StoreDecisions(st, ds) ==
    LET decisions == IF ds = <<>> THEN <<FallbackDecision>> ELSE ds
    IN  [st EXCEPT !.fact_checker_decision = DecisionOrNone(decisions, 1),
                   !.image_analyst_decision = DecisionOrNone(decisions, 2),
                   !.source_verifier_decision = DecisionOrNone(decisions, 3),
                   !.context_analyst_decision = DecisionOrNone(decisions, 4)]

\* The join may go on to its next iteration: the awaited task is done.
JoinReady(ts, rs) == Len(rs) < NumModels /\ ts[Len(rs) + 1].status = "done"

\* The loop ends with the first result.
JoinCompleteFirst(rs) == Len(rs) >= 1

\* The loop of lines 409-416 ends when every task has been awaited.
JoinComplete(rs) == Len(rs) = NumModels

\* Lines 409-416: result = await task, for the next task in creation order,
\* and, after the last one, lines 420-465.
AwaitTask ==
    /\ pc = "await_tasks"
    /\ JoinReady(tasks, results)
    /\ results' = Append(results, tasks[Len(results) + 1].result)
    /\ IF ~ JoinComplete(results')
       THEN UNCHANGED <<pc, state, exc>>
       ELSE IF DecisionsExc(results') # "None"
       THEN /\ pc' = "raised"
            /\ exc' = DecisionsExc(results')
            /\ UNCHANGED state
       ELSE /\ pc' = "popularity_analysis"
            /\ state' = StoreDecisions(state, Decisions(results'))
            /\ UNCHANGED exc
    /\ UNCHANGED <<tasks, clock, late, world, calls>>

----------------------------------------------------------------------------
(* popularity_analysis and group_decision *)

AnalyzePopularity ==
    /\ pc = "popularity_analysis"
    /\ state' = [state EXCEPT !.popularity_score = _calculate_popularity_score(state.content_text)]
    /\ pc' = "group_decision"
    /\ UNCHANGED <<tasks, results, clock, late, exc, world, calls>>

\* Lines 698-708: the decision fields that are not None.
ValidDecisions(st) ==
    LET decisions == <<st.fact_checker_decision, st.image_analyst_decision,
                       st.source_verifier_decision, st.context_analyst_decision>>
    IN  [k \in 1..Len(SelectIdx(decisions, [i \in 1..4 |-> decisions[i] # None], 1)) |->
            decisions[SelectIdx(decisions, [i \in 1..4 |-> decisions[i] # None], 1)[k]]]

_group_decision_maker ==
    /\ pc = "group_decision"
    /\ \E valid_decisions \in {ValidDecisions(state)} :
           IF ComparisonRaises(valid_decisions)
           THEN /\ pc' = "raised"
                /\ exc' = "TypeError"
                /\ UNCHANGED state
           ELSE /\ pc' = "END"
                /\ \E group_decision \in {GroupDecisionOf(valid_decisions, state.popularity_score,
                                                           state.web_search_results)} :
                       state' = [state EXCEPT !.group_decision = group_decision,
                                              !.verification_complete = TRUE]
                /\ UNCHANGED exc
    /\ UNCHANGED <<tasks, results, clock, late, world, calls>>

----------------------------------------------------------------------------

Next ==
    \/ ProcessImages
    \/ PerformWebSearch
    \/ CreateTasks
    \/ Tick
    \/ \E i \in Models : JudgeReplies(i)
    \/ \E i \in Models : DeadlineExpires(i)
    \/ \E i \in Models : LateReply(i)
    \/ AwaitTask
    \/ AnalyzePopularity
    \/ _group_decision_maker

Spec == Init /\ [][Next]_vars

\* The event loop runs whatever is ready: a step that can be taken is taken.
FairWorlds == {World({Fake80}, <<>>, <<>>), World({EmbeddedMaybe}, <<>>, <<>>)}

FairSpec == InitWith(FairWorlds) /\ [][Next]_vars /\ WF_vars(Next)

----------------------------------------------------------------------------
(* Calls with and without images whose web search finds something when it   *)
(* does not raise, and whose judges reply as prompted, in time.             *)

TwoImages == <<"img1", "img2">>

StepWorlds == {World({Fake80}, <<"hit">>, <<"match">>)}

StepInit ==
    /\ pc = "image_processing"
    /\ \E content_images \in {<<>>, TwoImages} :
           state = VerificationState(PlainText, content_images)
    /\ tasks = [i \in Models |-> NoTask]
    /\ results = <<>>
    /\ clock = 0
    /\ late = {}
    /\ exc = "None"
    /\ world \in StepWorlds
    /\ calls = NoCalls

\* The judges of these calls reply before their deadline.
StepNext ==
    \/ ProcessImages
    \/ PerformWebSearch
    \/ CreateTasks
    \/ \E i \in Models : JudgeReplies(i)
    \/ AwaitTask
    \/ AnalyzePopularity
    \/ _group_decision_maker

\* The event loop runs whatever is ready.
StepSpec == StepInit /\ [][StepNext]_vars /\ WF_vars(StepNext)

----------------------------------------------------------------------------
(* The aggregation on its own: every combination of outcomes of the five    *)
(* judge calls, as multi_model_verification leaves them in the state.       *)

\* A text without keywords, shorter than 50 characters.
DullText == [words |-> <<"ok">>, length |-> 2]

\* A text with viral and emotional keywords, of the optimal length.
ViralText ==
    [words |-> <<"breaking", "exclusive", "shocking", "leaked",
                 "love", "hate", "angry", "happy", "sad">>,
     length |-> 300]

AggTexts == {PlainText, DullText, ViralText}

Fake50 == Response(<<O(Obj("fake", Num(500), OkReasoning, <<>>))>>)

\* "confidence": 0.504
Fake504 == Response(<<O(Obj("fake", Num(504), OkReasoning, <<>>))>>)

Authentic50 == Response(<<O(Obj("authentic", Num(500), OkReasoning, <<>>))>>)

AggMenuMixed == {Fake80, Authentic90, Fake30}

AggMenuLow == {Fake504, Fake50, Authentic50}

AggMenuText == {Uncertain10, Authentic90, FakeSaysFailed}

AggMenuWeak == {Fake50, Authentic90, Uncertain10}

Uncertain95 == Response(<<O(Obj("uncertain", Num(950), OkReasoning, <<>>))>>)

\* An uncertain vote can outweigh two fake votes here (0.95 > 0.6 + 0.3).
AggMenuUncertain == {Uncertain95, Fake60, Fake30}

\* Free text without JSON and without a keyword of _parse_text_response.
TextPlain == Response(<<W("no"), W("idea")>>)

AggMenuKeyword == {TextFake, TextPlain, Uncertain10}

AggWorlds ==
    {World(m, <<>>, <<>>) :
        m \in {AggMenuMixed, AggMenuLow, AggMenuText, AggMenuWeak, AggMenuUncertain,
               AggMenuKeyword}}

\* The state in which popularity_analysis starts: every task is done, with
\* a reply of the world or by its deadline (NoReply), the results are
\* collected and the decisions are stored.
AggInit ==
    /\ pc = "popularity_analysis"
    /\ world \in AggWorlds
    /\ tasks \in {[i \in Models |-> FinishTask(model_names[i], outcome[i], outcome[i] = NoReply)] :
                     outcome \in [Models -> world.replies \cup {NoReply}]}
    /\ results = [i \in Models |-> tasks[i].result]
    /\ \E content_text \in AggTexts :
           state = StoreDecisions(VerificationState(content_text, <<>>), Decisions(results))
    /\ clock = IF \E i \in Models : tasks[i].timed_out THEN Timeout ELSE 0
    /\ late = {}
    /\ exc = "None"
    /\ calls = NoCalls

AggNext ==
    \/ AnalyzePopularity
    \/ _group_decision_maker

AggSpec == AggInit /\ [][AggNext]_vars

----------------------------------------------------------------------------
(* The parser on its own: the five judge tasks of one call are running and  *)
(* the judge clients all give the same reply, drawn from every short        *)
(* sequence of words, JSON objects and code-fence markers.                  *)

ParseWords == {W("Sure"), W("Fake"), W("Authentic"), W("genuine"), W("false"),
               W("misleading"), W("unrealistic")}

\* Decoded objects: well-formed; with a decision and a confidence that are
\* not allowed; without evidence; with a confidence that is a string; with a
\* confidence that is the literal true.
ParseObjects == {O(Obj("fake", Num(800), OkReasoning, <<"e1">>)),
                 O(Obj("maybe", Num(1500), OkReasoning, <<>>)),
                 O([decision |-> "fake", confidence |-> Num(700), reasoning |-> OkReasoning]),
                 O(Obj("authentic", NonNumeric, OkReasoning, <<>>)),
                 O(Obj("authentic", JsonTrue, OkReasoning, <<>>))}

ParseTokens == ParseWords \cup ParseObjects \cup {FenceJson, Fence}

ParseReplies ==
    {Empty, ConnectError}
    \cup {Response(<<t>>) : t \in ParseTokens}
    \cup {Response(<<t, u>>) : t, u \in ParseTokens}
    \cup {Response(<<f, o, Fence>>) : f \in {FenceJson, Fence}, o \in ParseObjects}

ParseInit ==
    /\ pc = "await_tasks"
    /\ state = VerificationState(PlainText, <<>>)
    /\ tasks = [i \in Models |-> [NoTask EXCEPT !.status = "running"]]
    /\ results = <<>>
    /\ clock = 0
    /\ late = {}
    /\ exc = "None"
    /\ world \in {World({reply}, <<>>, <<>>) : reply \in ParseReplies}
    /\ calls = NoCalls

ParseNext == \E i \in Models : JudgeReplies(i)

ParseSpec == ParseInit /\ [][ParseNext]_vars

----------------------------------------------------------------------------
(* Two verify_content calls at once on one AgenticVerificationSystem.  The  *)
(* event loop interleaves them at every await: each node of the workflow    *)
(* and each judge task is one step.                                         *)

Calls == {1, 2}

\* Every call works on one VerificationState kept by the system.
StateOfSystem(c) == 1

\* The VerificationState the nodes of call c work on: the initial_state that
\* verify_content creates for this call and hands to the workflow.
StateOf(c) == c

\* What one call is given: its text, what its web search does and finds,
\* and the outcome of each of its judge calls (a reply, or NoReply when
\* wait_for times out first).
CallInput(content_text, search, search_hits, outcomes) ==
    [content_text |-> content_text, search |-> search,
     search_hits |-> search_hits, outcomes |-> outcomes]

AllFake == [i \in Models |-> Fake80]

AllAuthentic == [i \in Models |-> Authentic90]

SomeTimeOut == <<Fake80, NoReply, Authentic90, Fake80, NoReply>>

OneMalformed == <<Authentic90, EmbeddedMaybe, Fake80, Fake80, Fake80>>

Outcomes == {AllFake, AllAuthentic, SomeTimeOut, OneMalformed}

TwoCallInit ==
    /\ pc = "image_processing"
    /\ state = VerificationState(PlainText, <<>>)
    /\ tasks = [i \in Models |-> NoTask]
    /\ results = <<>>
    /\ clock = 0
    /\ late = {}
    /\ exc = "None"
    /\ world = World({}, <<>>, <<>>)
    /\ \E first \in {CallInput(PlainText, "ok", <<"hit">>, o) : o \in Outcomes},
          second \in {CallInput(ViralText, "raise", <<>>, o) : o \in Outcomes} :
           LET input == <<first, second>>
           IN  calls = [pc |-> [c \in Calls |-> "image_processing"],
                        input |-> input,
                        state |-> [c \in Calls |->
                                      VerificationState(input[c].content_text, <<>>)],
                        tasks |-> [c \in Calls |-> [i \in Models |-> NoTask]],
                        results |-> [c \in Calls |-> <<>>],
                        returned |-> [c \in Calls |-> None]]

CallProcessImages(c) ==
    /\ calls.pc[c] = "image_processing"
    /\ calls' = [calls EXCEPT
                   !.state[StateOf(c)] = _process_images(calls.state[StateOf(c)], "ok"),
                   !.pc[c] = "web_search"]
    /\ UNCHANGED <<pc, state, tasks, results, clock, late, exc, world>>

CallPerformWebSearch(c) ==
    /\ calls.pc[c] = "web_search"
    /\ calls' = [calls EXCEPT
                   !.state[StateOf(c)] =
                       _perform_web_search(calls.state[StateOf(c)], calls.input[c].search,
                                           World({}, calls.input[c].search_hits, <<>>)),
                   !.pc[c] = "multi_model_verification"]
    /\ UNCHANGED <<pc, state, tasks, results, clock, late, exc, world>>

CallCreateTasks(c) ==
    /\ calls.pc[c] = "multi_model_verification"
    /\ calls' = [calls EXCEPT
                   !.tasks[c] = [i \in Models |-> [NoTask EXCEPT !.status = "running"]],
                   !.pc[c] = "await_tasks"]
    /\ UNCHANGED <<pc, state, tasks, results, clock, late, exc, world>>

\* The task of model i of call c finishes: its judge replied, or its
\* wait_for timed out.
CallJudgeReplies(c, i) ==
    /\ calls.tasks[c][i].status = "running"
    /\ \E outcome \in {calls.input[c].outcomes[i]} :
           calls' = [calls EXCEPT
                       !.tasks[c][i] = FinishTask(model_names[i], outcome, outcome = NoReply)]
    /\ UNCHANGED <<pc, state, tasks, results, clock, late, exc, world>>

CallAwaitTask(c) ==
    /\ calls.pc[c] = "await_tasks"
    /\ JoinReady(calls.tasks[c], calls.results[c])
    /\ \E rs \in {Append(calls.results[c], calls.tasks[c][Len(calls.results[c]) + 1].result)} :
           calls' = IF ~ JoinComplete(rs)
                    THEN [calls EXCEPT !.results[c] = rs]
                    ELSE IF DecisionsExc(rs) # "None"
                    THEN [calls EXCEPT !.results[c] = rs, !.pc[c] = "raised"]
                    ELSE [calls EXCEPT
                            !.results[c] = rs,
                            !.state[StateOf(c)] =
                                StoreDecisions(calls.state[StateOf(c)], Decisions(rs)),
                            !.pc[c] = "popularity_analysis"]
    /\ UNCHANGED <<pc, state, tasks, results, clock, late, exc, world>>

CallAnalyzePopularity(c) ==
    /\ calls.pc[c] = "popularity_analysis"
    /\ calls' = [calls EXCEPT
                   !.state[StateOf(c)].popularity_score =
                       _calculate_popularity_score(calls.state[StateOf(c)].content_text),
                   !.pc[c] = "group_decision"]
    /\ UNCHANGED <<pc, state, tasks, results, clock, late, exc, world>>

\* group_decision, and the return of verify_content with the group_decision
\* of the final state.
CallGroupDecision(c) ==
    /\ calls.pc[c] = "group_decision"
    /\ \E st \in {calls.state[StateOf(c)]} :
       \E valid_decisions \in {ValidDecisions(st)} :
           IF ComparisonRaises(valid_decisions)
           THEN calls' = [calls EXCEPT !.pc[c] = "raised"]
           ELSE \E group_decision \in {GroupDecisionOf(valid_decisions, st.popularity_score,
                                                       st.web_search_results)} :
                    calls' = [calls EXCEPT
                                !.state[StateOf(c)].group_decision = group_decision,
                                !.state[StateOf(c)].verification_complete = TRUE,
                                !.returned[c] = group_decision,
                                !.pc[c] = "END"]
    /\ UNCHANGED <<pc, state, tasks, results, clock, late, exc, world>>

TwoCallNext ==
    \E c \in Calls :
        \/ CallProcessImages(c)
        \/ CallPerformWebSearch(c)
        \/ CallCreateTasks(c)
        \/ \E i \in Models : CallJudgeReplies(c, i)
        \/ CallAwaitTask(c)
        \/ CallAnalyzePopularity(c)
        \/ CallGroupDecision(c)

TwoCallSpec == TwoCallInit /\ [][TwoCallNext]_vars

----------------------------------------------------------------------------
(* Properties *)

\* verify_content has returned: the GroupDecision it returns.
Returned == pc = "END"

Verdict == state.group_decision

\* The opinion of model i as an AgentDecision (once its task is done).
Opinion(i) == AgentDecision(model_names[i], tasks[i].result)

\* The ratio r lies in [0, one], where one is the ratio's unit.
InUnit(r, one) == r.den > 0 /\ 0 <= r.num /\ r.num <= one * r.den

\* C1: when verify_content returns, individual_decisions holds one opinion
\* per configured model: its length is the number of models.
C1_OneOpinionPerJudge ==
    Returned => Len(Verdict.individual_decisions) = NumModels

\* C2: when fewer than 2 of the opinions of the call are successful, the
\* verdict is uncertain with confidence 0 and consensus_score 0.
C2_QuorumGate ==
    (Returned /\ Cardinality({i \in Models : IsSuccessful(Opinion(i))}) < 2)
        => /\ Verdict.final_decision = "uncertain"
           /\ Verdict.confidence.num = 0
           /\ Verdict.consensus_score.num = 0

\* C2 witness: the gate closes on a call in which exactly one opinion is
\* successful and an opinion that is not successful says fake with 0.9.
C2_Witness ==
    /\ Returned
    /\ Cardinality({i \in Models : IsSuccessful(Opinion(i))}) = 1
    /\ \E i \in 1..NumDecisionFields :
           /\ ~ IsSuccessful(Opinion(i))
           /\ Opinion(i).decision = "fake"
           /\ Opinion(i).confidence = Num(900)

\* C3: a verdict of authentic or fake has a successful opinion of that class
\* with confidence >= 0.6 among its opinions.
C3_HighConfidenceGate ==
    (Returned /\ Verdict.final_decision \in {"authentic", "fake"})
        => \E k \in 1..Len(Verdict.individual_decisions) :
               LET d == Verdict.individual_decisions[k]
               IN  /\ IsSuccessful(d)
                   /\ d.decision = Verdict.final_decision
                   /\ d.confidence.v >= 600

\* C3 witness: fake wins by vote count, the summed confidences being tied.
C3_Witness ==
    /\ Returned
    /\ Verdict.final_decision = "fake"
    /\ WeightOf(Verdict.individual_decisions, "fake")
           = WeightOf(Verdict.individual_decisions, "authentic")

\* C4: the confidence of every opinion and the confidence and
\* consensus_score of every verdict lie in [0, 1].
C4_ConfidenceBounds ==
    /\ \A i \in Models :
           (tasks[i].status = "done" /\ "confidence" \in DOMAIN tasks[i].result)
               => /\ tasks[i].result.confidence.t = "num"
                  /\ 0 <= tasks[i].result.confidence.v
                  /\ tasks[i].result.confidence.v <= 1000
    /\ Returned => /\ InUnit(Verdict.confidence, 1000)
                   /\ InUnit(Verdict.consensus_score, 1)

\* C5: no reply of a judge makes verify_content end in an error.
C5_NoReplyRaises == pc # "raised"

\* The judge call of model i failed: its deadline expired, the client raised,
\* or the reply was empty.
CallFailed(i) ==
    /\ tasks[i].status = "done"
    /\ \/ tasks[i].timed_out
       \/ tasks[i].reply.kind = "raise"
       \/ tasks[i].reply.kind = "response" /\ tasks[i].reply.content = <<>>

\* The failure reason of a failed call, as the words the reasoning must carry.
FailureReason(i) ==
    IF tasks[i].timed_out THEN <<"Timeout">>
    ELSE IF tasks[i].reply.kind = "raise" THEN tasks[i].reply.msg
    ELSE <<"Empty", "response", "from", "model">>

\* The words of reason occur in text, in order and contiguously.
Carries(text, reason) ==
    \E k \in 0..(Len(text) - Len(reason)) :
        SubSeq(text, k + 1, k + Len(reason)) = reason

\* failed_decisions of line 725, as the aggregator of this call computes it.
FailedPartition ==
    LET ds == ValidDecisions(state)
        idx == FailedIdx(ds)
    IN  {ds[idx[k]] : k \in 1..Len(idx)}

\* The opinion a failed call must yield.
IsDegraded(i) ==
    /\ tasks[i].result.decision = "uncertain"
    /\ tasks[i].result.confidence = Num(0)
    /\ Carries(tasks[i].result.reasoning, FailureReason(i))

\* C6: a timeout, an error raised by the judge client and an empty reply each
\* yield an opinion uncertain with confidence 0 whose reasoning carries the
\* failure reason, and the aggregator has that opinion in its failed
\* partition.
C6_FailedCallsAreFailedOpinions ==
    \A i \in Models :
        CallFailed(i) => /\ IsDegraded(i)
                         /\ Returned => Opinion(i) \in FailedPartition

\* The part of C6 that holds: every failed call yields the degraded opinion,
\* and the opinions of the models whose decision is stored in one of the
\* decision fields are in the failed partition.
C6_StoredFailedOpinions ==
    \A i \in Models :
        CallFailed(i) => /\ IsDegraded(i)
                         /\ (Returned /\ i <= NumDecisionFields)
                                => Opinion(i) \in FailedPartition

TimeoutOpinion(i) == _create_fallback_decision(model_names[i], <<"Timeout">>)

\* C7: a task that is still running when its deadline has expired finishes
\* with the Timeout opinion (uncertain, confidence 0, not successful); from
\* then on nothing, a late reply of the abandoned call included, changes the
\* opinion of that task, the collected result or the opinion in the verdict,
\* and the step of a late reply leaves the verdict as it is.
C7_TimeoutIsFinal ==
    [][\A i \in Models :
        /\ (tasks[i].status = "running" /\ clock >= Timeout /\ tasks'[i].status = "done")
               => /\ tasks'[i].timed_out
                  /\ tasks'[i].result = TimeoutOpinion(i)
                  /\ tasks'[i].result.decision = "uncertain"
                  /\ tasks'[i].result.confidence = Num(0)
                  /\ ~ IsSuccessful(AgentDecision(model_names[i], tasks'[i].result))
        /\ tasks[i].timed_out
               => /\ tasks'[i].timed_out
                  /\ tasks'[i].result = TimeoutOpinion(i)
        /\ (tasks'[i].timed_out /\ i <= Len(results'))
               => results'[i] = TimeoutOpinion(i)
        /\ (tasks'[i].timed_out /\ pc' = "END" /\ i <= NumDecisionFields)
               => state'.group_decision.individual_decisions[i]
                      = AgentDecision(model_names[i], TimeoutOpinion(i))
        /\ (i \in late' /\ i \notin late)
               => /\ results' = results
                  /\ state' = state
                  /\ pc' = pc
      ]_vars

\* C7 witness: verify_content has returned and the abandoned call of a
\* timed-out model has replied after its deadline.
C7_Witness ==
    /\ Returned
    /\ \E i \in late : tasks[i].timed_out /\ i <= NumDecisionFields

\* C8: the aggregation starts only when every task of the call is done and
\* every result has been collected: while a task is pending no decision field
\* is set and no verdict exists, and the collected results are those of the
\* tasks.
C8_AggregateAfterAllTasks ==
    (\/ pc \in {"popularity_analysis", "group_decision", "END"}
     \/ state.group_decision # None
     \/ state.fact_checker_decision # None)
        => /\ \A i \in Models : tasks[i].status = "done"
           /\ Len(results) = NumModels
           /\ \A i \in Models : results[i] = tasks[i].result

\* C8 witness: a verdict exists for a call in which a task timed out, a
\* client raised and a model replied.
C8_Witness ==
    /\ Returned
    /\ \E i \in Models : tasks[i].timed_out
    /\ \E i \in Models : tasks[i].reply.kind = "raise"
    /\ \E i \in Models : IsSuccessful(Opinion(i))

\* C9: every verify_content call eventually returns a verdict.
C9_EventuallyVerdict == <>(Returned /\ Verdict # None)

\* Every verify_content call eventually ends: it returns or it raises.
EventuallyEnds == <>(pc \in {"END", "raised"})

\* C10: three models reply {fake, 0.8}, one replies {authentic, 0.9} and one
\* times out: the verdict is fake with confidence 0.8 and consensus_score
\* 3/4, on whichever models these outcomes fall.
C10_Scenario ==
    (/\ Returned
     /\ Cardinality({i \in Models : tasks[i].reply = Fake80}) = 3
     /\ Cardinality({i \in Models : tasks[i].reply = Authentic90}) = 1
     /\ Cardinality({i \in Models : tasks[i].timed_out}) = 1)
        => /\ Verdict.final_decision = "fake"
           /\ Verdict.confidence.num = 800 * Verdict.confidence.den
           /\ 4 * Verdict.consensus_score.num = 3 * Verdict.consensus_score.den

\* C11: the reward of a verdict that is not fake (the quorum-miss verdict
\* included) is 0; the reward of a fake verdict is
\* min(1.0, 0.05 * (1 + 4 * popularity)) for the popularity score of the
\* request, which lies in [0, 1], so the reward is 1 to 5 times 0.05.
\* (The reward is in units of 0.0001, the popularity in hundredths.)
C11_Reward ==
    Returned =>
        /\ 0 <= state.popularity_score /\ state.popularity_score <= 100
        /\ Verdict.final_decision # "fake" => Verdict.dynamic_reward = 0
        /\ Verdict.final_decision = "fake" =>
               /\ Verdict.popularity_score = state.popularity_score
               /\ 100 * Verdict.dynamic_reward
                      = Min(100 * 10000, 500 * (100 + 4 * state.popularity_score))
               /\ 1 * 500 <= Verdict.dynamic_reward
               /\ Verdict.dynamic_reward <= 5 * 500

\* C11 witness: a fake verdict on the viral text (popularity 0.96), whose
\* reward is 0.242.
C11_Witness ==
    /\ Returned
    /\ Verdict.final_decision = "fake"
    /\ state.popularity_score = 96
    /\ Verdict.dynamic_reward = 2420

\* The verdict of the call had model i ended with the given outcome instead
\* (a reply, or NoReply for its deadline), everything else being the same.
VerdictWith(i, outcome) ==
    LET rs == [results EXCEPT ![i] = _verify_with_model_safe(model_names[i], outcome,
                                                              outcome = NoReply)]
    IN  GroupDecisionOf(ValidDecisions(StoreDecisions(state, Decisions(rs))),
                        state.popularity_score, state.web_search_results)

\* C12: the rationale of an uncertain verdict identifies its cause (quorum
\* missed, no clear majority, or a leading class without a supporter of
\* confidence >= 0.6): two uncertain verdicts with different causes, here
\* the verdict of the call and the one it would have with another outcome
\* for one model, never have the same rationale.
C12_RationaleIdentifiesCause ==
    (Returned /\ Verdict.final_decision = "uncertain") =>
        \A i \in Models : \A outcome \in world.replies \cup {NoReply} :
            LET other == VerdictWith(i, outcome)
            IN  (/\ other.final_decision = "uncertain"
                 /\ UncertainCause(other.individual_decisions)
                        # UncertainCause(Verdict.individual_decisions))
                    => other.group_reasoning # Verdict.group_reasoning

\* The opinions of the verdict that the aggregator counts as successful, and
\* those among them of a class, as positions in individual_decisions.
SuccessfulOpinions ==
    {k \in 1..Len(Verdict.individual_decisions) : IsSuccessful(Verdict.individual_decisions[k])}

VotesFor(cls) ==
    {k \in SuccessfulOpinions : Verdict.individual_decisions[k].decision = cls}

\* C13: with at least 2 successful opinions, consensus_score is the larger
\* of the numbers of successful authentic and successful fake opinions over
\* the number of successful opinions, whatever the decision is and whichever
\* rule gave it; with fewer it is 0.
C13_ConsensusScore ==
    Returned =>
        IF Cardinality(SuccessfulOpinions) >= 2
        THEN /\ Verdict.consensus_score.den > 0
             /\ Verdict.consensus_score.num * Cardinality(SuccessfulOpinions)
                    = Max(Cardinality(VotesFor("authentic")), Cardinality(VotesFor("fake")))
                      * Verdict.consensus_score.den
        ELSE Verdict.consensus_score.num = 0

\* C13 witness: an uncertain verdict (fake leads without a supporter of
\* confidence >= 0.6) whose consensus_score is 2/3, one opinion having failed.
C13_Witness ==
    /\ Returned
    /\ Verdict.final_decision = "uncertain"
    /\ Cardinality(SuccessfulOpinions) = 3
    /\ Cardinality(VotesFor("fake")) = 2
    /\ Cardinality(VotesFor("authentic")) = 1
    /\ 3 * Verdict.consensus_score.num = 2 * Verdict.consensus_score.den

\* C14 as stated: the consensus_score of an authentic or fake verdict is the
\* fraction of the successful opinions whose decision is the verdict's.
C14_FractionAgreeingWithVerdict ==
    (Returned /\ Verdict.final_decision \in {"authentic", "fake"}) =>
        Verdict.consensus_score.num * Cardinality(SuccessfulOpinions)
            = Cardinality(VotesFor(Verdict.final_decision)) * Verdict.consensus_score.den

\* The other one of authentic and fake.
Opposite(cls) == IF cls = "fake" THEN "authentic" ELSE "fake"

\* C14, amended: the consensus_score of an authentic or fake verdict is the
\* fraction of the successful opinions that voted for whichever of authentic
\* and fake has more votes; it is the fraction agreeing with the verdict when
\* the verdict's class has at least as many votes as the opposite class, and
\* the fraction that voted for the opposite class when the weights gave the
\* verdict to the class with fewer votes.
C14_FractionOfLargerClass ==
    (Returned /\ Verdict.final_decision \in {"authentic", "fake"}) =>
        LET own == Cardinality(VotesFor(Verdict.final_decision))
            opp == Cardinality(VotesFor(Opposite(Verdict.final_decision)))
        IN  /\ Verdict.consensus_score.den > 0
            /\ Verdict.consensus_score.num * Cardinality(SuccessfulOpinions)
                   = (IF own >= opp THEN own ELSE opp) * Verdict.consensus_score.den

\* C14 witness: authentic wins by weight with one vote against two fake
\* votes; the consensus_score is 2/3.
C14_Witness ==
    /\ Returned
    /\ Verdict.final_decision = "authentic"
    /\ Cardinality(VotesFor("authentic")) = 1
    /\ Cardinality(VotesFor("fake")) = 2
    /\ Cardinality(SuccessfulOpinions) = 3
    /\ 3 * Verdict.consensus_score.num = 2 * Verdict.consensus_score.den

\* json.dumps of an opinion: the text of one JSON object with its fields.
Serialize(opinion) == Response(<<O(opinion)>>)

\* An opinion as the claim has it: the four fields, a decision of the three
\* classes and a confidence in [0, 1].
IsOpinion(o) ==
    /\ DOMAIN o = {"decision", "confidence", "reasoning", "evidence"}
    /\ o.decision \in {"authentic", "fake", "uncertain"}
    /\ o.confidence.t = "num"
    /\ 0 <= o.confidence.v /\ o.confidence.v <= 1000

\* C16: every opinion a judge task ended with (from the strict parse, the
\* embedded object, the text classification or a fallback), serialized as
\* the JSON object of its four fields and parsed again, comes back with the
\* same decision, confidence, reasoning and evidence.
C16_RoundTrip ==
    \A i \in Models :
        (tasks[i].status = "done" /\ IsOpinion(tasks[i].result))
            => _verify_with_model(model_names[i], Serialize(tasks[i].result)) = tasks[i].result

\* C16 witness: opinions from the text classification, from a failed call
\* (confidence 0) and from a strict parse, in one call that has returned.
C16_Witness ==
    /\ Returned
    /\ \E i \in Models : tasks[i].reply = TextFake /\ tasks[i].result.confidence = Num(600)
    /\ \E i \in Models : tasks[i].timed_out /\ tasks[i].result.confidence = Num(0)
    /\ \E i \in Models : tasks[i].reply = Uncertain10 /\ tasks[i].result.confidence = Num(100)

\* C17: an opinion is counted as successful exactly when it comes from a
\* parsed judge reply (the call did not fail or time out) and has a
\* confidence > 0, whatever its reasoning says; every other opinion is
\* counted as failed.
C17_PartitionByFailureAndConfidence ==
    Returned =>
        \A i \in 1..Len(Verdict.individual_decisions) :
            IF ~ CallFailed(i) /\ tasks[i].result.confidence.v > 0
            THEN Opinion(i) \notin FailedPartition
            ELSE Opinion(i) \in FailedPartition

Classes == {"authentic", "fake", "uncertain"}

\* The summed confidence of the successful opinions of a class.
SummedConfidence(cls) ==
    SumSeq([k \in 1..Len(Verdict.individual_decisions) |->
              IF k \in VotesFor(cls) THEN Verdict.individual_decisions[k].confidence.v ELSE 0])

\* The class has strictly the greatest summed confidence of the three.
LeadsByWeight(cls) ==
    \A other \in Classes \ {cls} : SummedConfidence(cls) > SummedConfidence(other)

\* The class has strictly the most votes of the three.
LeadsByCount(cls) ==
    \A other \in Classes \ {cls} : Cardinality(VotesFor(cls)) > Cardinality(VotesFor(other))

\* A successful opinion of the class has confidence >= 0.6.
HasSupporter(cls) ==
    \E k \in VotesFor(cls) : Verdict.individual_decisions[k].confidence.v >= 600

QuorumMet == Cardinality(SuccessfulOpinions) >= 2

\* C18: with the quorum met, when authentic or fake has strictly the
\* greatest summed confidence of the three classes and a supporter with
\* confidence >= 0.6, it is the final decision, whatever the vote counts.
C18_WeightedRule ==
    Returned =>
        \A cls \in {"authentic", "fake"} :
            (QuorumMet /\ LeadsByWeight(cls) /\ HasSupporter(cls))
                => Verdict.final_decision = cls

\* C18 witness: authentic is the final decision with one vote of confidence
\* 0.9 against three uncertain votes of confidence 0.1.
C18_Witness ==
    /\ Returned
    /\ Verdict.final_decision = "authentic"
    /\ Cardinality(VotesFor("authentic")) = 1
    /\ Cardinality(VotesFor("uncertain")) = 3
    /\ LeadsByCount("uncertain")

ConfidenceSum(set) ==
    SumSeq([k \in 1..Len(Verdict.individual_decisions) |->
              IF k \in set THEN Verdict.individual_decisions[k].confidence.v ELSE 0])

\* C20: with the quorum met, the confidence of the verdict is the mean of the
\* confidences of the successful opinions whose decision is the final
\* decision, and the mean over all successful opinions when there is none;
\* five judges all replying {uncertain, 0.1} give uncertain with 0.1.
C20_MeanConfidence ==
    (Returned /\ QuorumMet) =>
        LET aligned == VotesFor(Verdict.final_decision)
            over == IF aligned # {} THEN aligned ELSE SuccessfulOpinions
        IN  /\ Verdict.confidence.den > 0
            /\ Verdict.confidence.num * Cardinality(over)
                   = ConfidenceSum(over) * Verdict.confidence.den
            /\ (\A i \in Models : tasks[i].reply = Uncertain10)
                   => /\ Verdict.final_decision = "uncertain"
                      /\ Verdict.confidence.num = 100 * Verdict.confidence.den

\* C20 witness: an uncertain verdict without an uncertain vote (fake 0.5 and
\* 0.5 against authentic 0.9), whose confidence is the mean 1.9 / 3 over all
\* successful opinions.
C20_Witness ==
    /\ Returned
    /\ Verdict.final_decision = "uncertain"
    /\ VotesFor("uncertain") = {}
    /\ Cardinality(SuccessfulOpinions) = 3
    /\ 3 * Verdict.confidence.num = 1900 * Verdict.confidence.den

\* The scenario of C20: all five judges reply {uncertain, 0.1}.
AllUncertain10 ==
    /\ Returned
    /\ \A i \in Models : tasks[i].reply = Uncertain10
    /\ Verdict.final_decision = "uncertain"
    /\ Verdict.confidence.num = 100 * Verdict.confidence.den

\* The outcome of a call that runs alone on the system with this input: how
\* it ends, and the GroupDecision it returns.
RunAlone(input) ==
    LET st0 == VerificationState(input.content_text, <<>>)
        st1 == _process_images(st0, "ok")
        st2 == _perform_web_search(st1, input.search, World({}, input.search_hits, <<>>))
        rs == [i \in Models |->
                  FinishTask(model_names[i], input.outcomes[i],
                             input.outcomes[i] = NoReply).result]
    IN  IF DecisionsExc(rs) # "None" THEN [pc |-> "raised", returned |-> None]
        ELSE LET st3 == StoreDecisions(st2, Decisions(rs))
                 st4 == [st3 EXCEPT !.popularity_score =
                                        _calculate_popularity_score(st3.content_text)]
                 valid_decisions == ValidDecisions(st4)
             IN  IF ComparisonRaises(valid_decisions)
                 THEN [pc |-> "raised", returned |-> None]
                 ELSE [pc |-> "END",
                       returned |-> GroupDecisionOf(valid_decisions, st4.popularity_score,
                                                    st4.web_search_results)]

\* Call c is over: verify_content returned or raised.
CallOver(c) == calls.pc[c] \in {"END", "raised"}

C21_TieIsUncertain ==
    (/\ Returned
     /\ QuorumMet
     /\ \A cls \in Classes : ~ LeadsByWeight(cls)
     /\ \A cls \in Classes : ~ LeadsByCount(cls))
        => Verdict.final_decision = "uncertain"

\* C21 witness: one fake and one authentic opinion of confidence 0.5 each,
\* the other judges failed: a tie of the weights and of the votes.
C21_Witness ==
    /\ Returned
    /\ QuorumMet
    /\ \A cls \in Classes : ~ LeadsByWeight(cls)
    /\ \A cls \in Classes : ~ LeadsByCount(cls)
    /\ Cardinality(VotesFor("fake")) = 1
    /\ Cardinality(VotesFor("authentic")) = 1
    /\ SummedConfidence("fake") = 500

\* The tasks whose judge replied with a text before the deadline.
Parsed == {i \in Models : /\ tasks[i].status = "done"
                          /\ ~ tasks[i].timed_out
                          /\ tasks[i].reply.kind = "response"
                          /\ tasks[i].reply.content # <<>>}

\* The reply of task i does not decode as a whole (after the fences are
\* stripped) and a JSON object is found inside it: that object.
HasFragment(i) ==
    /\ ~ JsonDecodes(StripFences(tasks[i].reply.content))
    /\ BraceSpan(StripFences(tasks[i].reply.content)) # <<>>
    /\ JsonDecodes(BraceSpan(StripFences(tasks[i].reply.content)))

Fragment(i) == BraceSpan(StripFences(tasks[i].reply.content))[1].o

FourFields == {"decision", "confidence", "reasoning", "evidence"}

\* C22: an opinion obtained by fragment extraction passes the validation of
\* a strictly parsed one: it has the four fields, its decision is authentic,
\* fake or uncertain (uncertain when the object has another value) and its
\* confidence is a number in [0,1] (0.5 when the object has another value).
C22_FragmentIsValidated ==
    \A i \in Parsed :
        HasFragment(i) =>
            /\ FourFields \subseteq DOMAIN tasks[i].result
            /\ tasks[i].result.decision \in Classes
            /\ tasks[i].result.confidence.t = "num"
            /\ 0 <= tasks[i].result.confidence.v /\ tasks[i].result.confidence.v <= 1000
            /\ (FourFields \subseteq DOMAIN Fragment(i))
                   => tasks[i].result = ValidateDecision(model_names[i], Fragment(i))

\* The tiers _verify_with_model runs on the reply of task i, in the order
\* strict parse (1), fragment extraction (2), keyword classification (3): the
\* try block returns when json.loads succeeds, the handler of the decode
\* error returns the object it finds, and only then the text is classified.
TiersTried(i) ==
    IF JsonDecodes(StripFences(tasks[i].reply.content)) THEN 1
    ELSE IF HasFragment(i) THEN 2
    ELSE 3

\* Strict parse gives an opinion: the reply decodes as an object with the
\* four fields.
StrictParses(i) ==
    /\ JsonDecodes(StripFences(tasks[i].reply.content))
    /\ FourFields \subseteq DOMAIN StripFences(tasks[i].reply.content)[1].o

\* The result of task i is the failure placeholder.
IsPlaceholder(i) ==
    /\ tasks[i].result.decision = "uncertain"
    /\ tasks[i].result.confidence = Num(0)
    /\ Carries(tasks[i].result.reasoning, <<"Model", model_names[i], "failed:">>)

\* C23: the parser tries strict parse, fragment extraction and keyword
\* classification in this order, a tier only when the one before gave no
\* opinion; a non-empty reply becomes the failure placeholder only after all
\* three tiers were tried on it, a reply that decodes as an object without
\* one of the four fields included.
C23_TiersInOrder ==
    \A i \in Parsed :
        /\ StrictParses(i) => TiersTried(i) = 1
        /\ (~ StrictParses(i) /\ HasFragment(i)) => TiersTried(i) = 2
        /\ IsPlaceholder(i) => TiersTried(i) = 3

\* The texts that are the JSON text of tok alone or between code-fence
\* markers.
Fenced(tok) == {<<tok>>, <<FenceJson, tok>>, <<Fence, tok>>, <<tok, Fence>>,
                <<FenceJson, tok, Fence>>, <<Fence, tok, Fence>>}

\* C24: strict parse of a reply that decodes, with or without code-fence
\* markers around it, as an object with the four fields gives the object
\* with a decision other than authentic, fake, uncertain replaced by
\* uncertain and a confidence that is not a number or not in [0,1] replaced
\* by 0.5, everything else unchanged.
C24_StrictParse ==
    \A i \in Parsed :
        \A k \in 1..Len(tasks[i].reply.content) :
            LET tok == tasks[i].reply.content[k]
            IN  (/\ tok.k = "o"
                 /\ tasks[i].reply.content \in Fenced(tok)
                 /\ FourFields \subseteq DOMAIN tok.o)
                    => tasks[i].result =
                           [decision |-> IF tok.o.decision \in Classes
                                         THEN tok.o.decision ELSE "uncertain",
                            confidence |-> IF /\ tok.o.confidence.t = "num"
                                              /\ 0 <= tok.o.confidence.v
                                              /\ tok.o.confidence.v <= 1000
                                           THEN tok.o.confidence ELSE Num(500),
                            reasoning |-> tok.o.reasoning,
                            evidence |-> tok.o.evidence]

\* C25: keyword classification of a reply that reached the third tier: a
\* text containing authentic or genuine gives authentic with 0.6; a text
\* containing fake, false or misleading and none of the former gives fake
\* with 0.6; a text with none of these words gives uncertain with 0.3; the
\* evidence is empty.
C25_KeywordClassification ==
    \A i \in Parsed :
        TiersTried(i) = 3 =>
            LET words == ContentWords(tasks[i].reply.content)
                says_authentic == InLower("authentic", words) \/ InLower("genuine", words)
                says_fake == \/ InLower("fake", words)
                             \/ InLower("false", words)
                             \/ InLower("misleading", words)
            IN  /\ tasks[i].result.evidence = <<>>
                /\ <<tasks[i].result.decision, tasks[i].result.confidence>> =
                       IF says_authentic THEN <<"authentic", Num(600)>>
                       ELSE IF says_fake THEN <<"fake", Num(600)>>
                       ELSE <<"uncertain", Num(300)>>

\* The join is over and the decisions are stored.
Stored == pc \in {"popularity_analysis", "group_decision", "END"}

\* C26: opinions are collected by the position of the judge, not in the
\* order of completion: the k-th collected result is the one the task of the
\* k-th model produced from its own reply or deadline, at any time after it
\* was collected, and the k-th stored opinion is made of it and carries the
\* name of the k-th model.
C26_CollectedByPosition ==
    /\ \A k \in 1..Len(results) :
           /\ tasks[k].status = "done"
           /\ results[k] = _verify_with_model_safe(model_names[k], tasks[k].reply,
                                                   tasks[k].timed_out)
    /\ Stored =>
           \A k \in 1..Len(ValidDecisions(state)) :
               /\ ValidDecisions(state)[k].agent_name = AgentName(model_names[k])
               /\ ValidDecisions(state)[k] = AgentDecision(model_names[k], results[k])

\* C26 witness: the first judge finished last, by its deadline, after the
\* second had replied fake and the third authentic; the verdict has their
\* opinions at the first, second and third position.
C26_Witness ==
    /\ Returned
    /\ tasks[1].timed_out
    /\ ~ tasks[2].timed_out /\ ~ tasks[3].timed_out
    /\ Verdict.individual_decisions[1].reasoning = TimeoutOpinion(1).reasoning
    /\ Verdict.individual_decisions[2].decision = "fake"
    /\ Verdict.individual_decisions[3].decision = "authentic"

\* C27: whenever neither authentic nor fake has strictly the greatest summed
\* confidence, also when uncertain has it, the vote counts alone decide:
\* authentic or fake is the final decision when it has strictly the most
\* votes and a supporter with confidence >= 0.6, and the final decision is
\* uncertain otherwise.
C27_CountRuleWithoutWeightLeader ==
    (/\ Returned
     /\ QuorumMet
     /\ ~ LeadsByWeight("authentic")
     /\ ~ LeadsByWeight("fake"))
        => /\ \A cls \in {"authentic", "fake"} :
                  (LeadsByCount(cls) /\ HasSupporter(cls)) => Verdict.final_decision = cls
           /\ (~ \E cls \in {"authentic", "fake"} : LeadsByCount(cls) /\ HasSupporter(cls))
                  => Verdict.final_decision = "uncertain"

\* C27 witness: one uncertain vote of confidence 0.95 outweighs the fake
\* votes of confidence 0.6 and 0.3, and the verdict is fake.
C27_Witness ==
    /\ Returned
    /\ QuorumMet
    /\ LeadsByWeight("uncertain")
    /\ LeadsByCount("fake")
    /\ SummedConfidence("fake") = 900
    /\ Verdict.final_decision = "fake"

\* The judges that gave the reply before their deadline.
Replied(reply) == {i \in Models : tasks[i].reply = reply /\ ~ tasks[i].timed_out}

TimedOut == {i \in Models : tasks[i].timed_out}

\* C28: a keyword-classified fake opinion has confidence 0.6, which passes
\* the support check (0.6 >= 0.6): when the only successful opinions of a
\* request are two keyword-classified fake opinions (the other judges timed
\* out), the verdict is fake with confidence 0.6 and a reward above 0.
C28_KeywordFakeQuorum ==
    /\ \A i \in Replied(TextFake) :
           /\ tasks[i].result.decision = "fake"
           /\ tasks[i].result.confidence = Num(600)
           /\ tasks[i].result.confidence.v >= min_confidence_threshold
    /\ (Returned /\ Cardinality(Replied(TextFake)) = 2 /\ Cardinality(TimedOut) = 3)
           => /\ Verdict.final_decision = "fake"
              /\ Verdict.confidence.num = 600 * Verdict.confidence.den
              /\ Verdict.dynamic_reward > 0

\* C29: a reply that is neither JSON nor has a keyword becomes the opinion
\* uncertain with confidence 0.3, which counts as successful: two such
\* replies, with every other judge timed out, meet the quorum and give
\* uncertain with confidence 0.3 and consensus_score 0.
C29_PlainTextQuorum ==
    /\ \A i \in Replied(TextPlain) :
           /\ tasks[i].result.decision = "uncertain"
           /\ tasks[i].result.confidence = Num(300)
           /\ IsSuccessful(Opinion(i))
    /\ (Returned /\ Cardinality(Replied(TextPlain)) = 2 /\ Cardinality(TimedOut) = 3)
           => /\ Verdict.final_decision = "uncertain"
              /\ Verdict.confidence.num = 300 * Verdict.confidence.den
              /\ Verdict.confidence.den > 0
              /\ Verdict.consensus_score.num = 0
              /\ Verdict.group_reasoning.kind = "generated"

\* The image-processing step of the call raised (the model's image processor
\* extracts a text from every image when it does not raise).
ImageStepRaised ==
    /\ state.content_images # <<>>
    /\ pc # "image_processing"
    /\ state.extracted_texts = <<>>

\* The web-search step of the call raised (the search of this world finds
\* something when it does not raise).
WebSearchRaised ==
    /\ world.search_hits # <<>>
    /\ pc \notin {"image_processing", "web_search"}
    /\ state.web_search_results = <<>>

\* multi_model_verification has created its tasks.
FannedOut == pc \in {"await_tasks", "popularity_analysis", "group_decision", "END"}

\* C30: a failure of the image-processing step or of the web-search step
\* does not stop the call: the call never ends by that exception, every
\* judge is dispatched, a verdict is returned, and after a failure of the
\* web search the text search results and the image verification results
\* are empty, in the state and in the verdict.
C30_StepFailuresDoNotStopTheCall ==
    /\ [](/\ pc # "raised"
          /\ FannedOut => \A i \in Models : tasks[i].status \in {"running", "done"}
          /\ WebSearchRaised => /\ state.fact_check_results = <<>>
                                /\ Returned => Verdict.web_search_results = <<>>)
    /\ (ImageStepRaised \/ WebSearchRaised) ~> (Returned /\ Verdict # None)

\* C30 witness: both steps raised on a call with two images, and the call
\* returned a verdict of five dispatched judges.
C30_Witness ==
    /\ ImageStepRaised
    /\ WebSearchRaised
    /\ Returned
    /\ Verdict.final_decision = "fake"
    /\ \A i \in Models : tasks[i].status = "done"

====
